---- MODULE Spec2Model ----
(***************************************************************************)
(* A model of prettyme's latex.py: the pre-conversion text transform       *)
(* (comment filter, \input inclusion, --| hex escaping, quote              *)
(* normalisation), the post-conversion decode, and main()'s build in a     *)
(* temporary directory (staging, pdflatex/bibtex passes, harvest, the      *)
(* page.tex fallback and the cleanup).                                     *)
(*                                                                         *)
(* A Python 2 str is a sequence of byte values 0..255, so that 'hex'       *)
(* encoding and decoding are the arithmetic they are in the interpreter.   *)
(***************************************************************************)
EXTENDS Integers, Sequences, FiniteSets, TLC

VARIABLES
    pc,             \* position of main() in latex.py
    text,           \* the input document (main: text, line 272/274)
    fs,             \* the .tex files open() can see in the caller's directory
    bib,            \* main: bib (None, or the bibliography file's contents)
    no_bib_include, \* main: no_bib_include
    includedirs,    \* main: includedirs (basenames)
    includefiles,   \* main: includefiles (basenames)
    pandoc_in,      \* what latex() hands to pandoc's stdin (latex: text, line 179)
    returncode,     \* pandoc.returncode (-1 while pandoc has not run)
    body,           \* what latex() returns
    latex_text,     \* main: latex_text
    tmpdir,         \* whether the directory made by mkdtemp exists
    files,          \* the names that exist directly under tmpdir
    cwd,            \* the process's working directory: "mydir" or "tmpdir"
    recovery,       \* contents of page.tex in mydir (NoFile when absent)
    calls,          \* the external processes spawned so far, in order
    exc,            \* the exception that left main() ("none" when none)
    caught,         \* the exception the except of line 319 caught ("none" when none)
    stdout,         \* what output() has printed (NoFile when nothing)
    idx,            \* loop position in the staging loops
    tpc,            \* position of the text-function runs
    r1,             \* result of the first application
    r2              \* result of the second application

vars == <<pc, text, fs, bib, no_bib_include, includedirs, includefiles,
          pandoc_in, returncode, body, latex_text, tmpdir, files, cwd,
          recovery, calls, exc, caught, stdout, idx, tpc, r1, r2>>

mainvars == <<pc, bib, no_bib_include, includedirs, includefiles, pandoc_in,
              returncode, body, latex_text, tmpdir, files, cwd, recovery,
              calls, exc, caught, stdout, idx>>

textvars == <<tpc, r1, r2>>

-----------------------------------------------------------------------------
(* Bounds of the model *)

\* The interpreter's recursion limit, counted in nested calls of process.
RecursionLimit == 4

\* The number of tokens an input of the text-function runs is made of.
MaxTokens == 3

-----------------------------------------------------------------------------
(* String literals of latex.py *)

NL == <<10>>                                             \* '\n'
InputOpen == <<92, 105, 110, 112, 117, 116, 123>>        \* '\\input{'
CloseBrace == <<125>>                                    \* '}'
DotTex == <<46, 116, 101, 120>>                          \* '.tex'
LiteralMarker == <<45, 45, 124>>                         \* '--|'
DecodeMe == <<46, 100, 101, 99, 111, 100, 101, 109, 101, 46>>  \* '.decodeme.'
CommentMarker == <<45, 35, 45>>                          \* '-#-'
Backticks == <<96, 96>>                                  \* '``'
Quotes == <<39, 39>>                                     \* "''"
DoubleQuote == <<34>>                                    \* '"'
BeginEnumerate == <<92, 98, 101, 103, 105, 110, 123, 101, 110, 117, 109,
                    101, 114, 97, 116, 101, 125>>        \* '\\begin{enumerate}'
\* the five \setlength lines out_process appends after \begin{enumerate}
EnumerateSettings ==
    << <<92, 115, 101, 116, 108, 101, 110, 103, 116, 104, 123, 92, 112, 97,
         114, 115, 107, 105, 112, 125, 123, 48, 112, 116, 125>>,
       <<92, 115, 101, 116, 108, 101, 110, 103, 116, 104, 123, 92, 116, 111,
         112, 115, 101, 112, 125, 123, 48, 112, 116, 125>>,
       <<92, 115, 101, 116, 108, 101, 110, 103, 116, 104, 123, 92, 112, 97,
         114, 116, 111, 112, 115, 101, 112, 125, 123, 45, 53, 112, 116, 125>>,
       <<92, 115, 101, 116, 108, 101, 110, 103, 116, 104, 123, 92, 105, 116,
         101, 109, 115, 101, 112, 125, 123, 48, 112, 116, 125>>,
       <<92, 115, 101, 116, 108, 101, 110, 103, 116, 104, 123, 92, 112, 97,
         114, 115, 101, 112, 125, 123, 48, 112, 116, 125>> >>

-----------------------------------------------------------------------------
(* Python 2 str methods, as the interpreter computes them *)

\* str.startswith
StartsWith(s, p) == Len(s) >= Len(p) /\ SubSeq(s, 1, Len(p)) = p

\* str.endswith
EndsWith(s, p) == Len(s) >= Len(p) /\ SubSeq(s, Len(s) - Len(p) + 1, Len(s)) = p

\* the bytes str.strip() removes: space, \t, \n, \v, \f, \r
Whitespace == {32, 9, 10, 11, 12, 13}

RECURSIVE LStrip(_)
LStrip(s) ==
    IF s # <<>> /\ Head(s) \in Whitespace THEN LStrip(Tail(s)) ELSE s

RECURSIVE RStrip(_)
RStrip(s) ==
    IF s # <<>> /\ s[Len(s)] \in Whitespace
    THEN RStrip(SubSeq(s, 1, Len(s) - 1))
    ELSE s

\* str.strip()
Strip(s) == RStrip(LStrip(s))

\* str.replace(old, new), old non-empty: leftmost non-overlapping occurrences
RECURSIVE Replace(_, _, _)
Replace(s, old, new) ==
    IF s = <<>> THEN <<>>
    ELSE IF StartsWith(s, old)
         THEN new \o Replace(SubSeq(s, Len(old) + 1, Len(s)), old, new)
         ELSE <<Head(s)>> \o Replace(Tail(s), old, new)

\* position of the first '\n' of s, 0 when there is none
RECURSIVE FindNL(_, _)
FindNL(s, i) ==
    IF i > Len(s) THEN 0
    ELSE IF s[i] = 10 THEN i
    ELSE FindNL(s, i + 1)

\* str.split('\n'): always at least one piece
RECURSIVE Split(_)
Split(s) ==
    LET i == FindNL(s, 1) IN
    IF i = 0 THEN <<s>>
    ELSE <<SubSeq(s, 1, i - 1)>> \o Split(SubSeq(s, i + 1, Len(s)))

\* '\n'.join(pieces)
RECURSIVE Join(_)
Join(pieces) ==
    IF pieces = <<>> THEN <<>>
    ELSE IF Len(pieces) = 1 THEN pieces[1]
    ELSE pieces[1] \o NL \o Join(Tail(pieces))

\* one lowercase hex digit, as a byte
HexDigit(n) == IF n < 10 THEN 48 + n ELSE 87 + n

\* str.encode('hex')
RECURSIVE HexEncode(_)
HexEncode(s) ==
    IF s = <<>> THEN <<>>
    ELSE <<HexDigit(Head(s) \div 16), HexDigit(Head(s) % 16)>>
         \o HexEncode(Tail(s))

\* the value of a hex digit byte, -1 when it is none
HexVal(c) ==
    IF c >= 48 /\ c <= 57 THEN c - 48
    ELSE IF c >= 97 /\ c <= 102 THEN c - 87
    ELSE IF c >= 65 /\ c <= 70 THEN c - 55
    ELSE -1

\* the outcome of a call: a value, or the exception it raised
Ok(s) == [err |-> "none", s |-> s]
Raise(e) == [err |-> e, s |-> <<>>]

\* str.decode('hex'): TypeError on an odd length or a non-hex digit
RECURSIVE HexDecode(_)
HexDecode(s) ==
    IF s = <<>> THEN Ok(<<>>)
    ELSE IF Len(s) = 1 \/ HexVal(s[1]) < 0 \/ HexVal(s[2]) < 0
         THEN Raise("TypeError")
         ELSE LET rest == HexDecode(SubSeq(s, 3, Len(s))) IN
              IF rest.err # "none" THEN rest
              ELSE Ok(<<16 * HexVal(s[1]) + HexVal(s[2])>> \o rest.s)

-----------------------------------------------------------------------------
(* latex(text): the functions nested in it *)

\* process_plain with '' normalised to a single ' instead of "
process_plain_single(line) ==
    Replace(Replace(line, Backticks, DoubleQuote), Quotes, <<39>>)

\* process, line 158: the quote normalisation of an ordinary line
process_plain(line) ==
    Replace(Replace(line, Backticks, DoubleQuote), Quotes, DoubleQuote)

\* process, lines 154-155: the hex escape of a '--|' line
process_literal(sline) ==
    NL \o DecodeMe \o HexEncode(Replace(sline, LiteralMarker, <<>>)) \o NL

\* process, line 149: the file an \input{...} line names
include_fname(sline) ==
    Replace(Replace(sline, InputOpen, <<>>), CloseBrace, <<>>) \o DotTex

\* process, line 148: whether the line is an inclusion directive
is_include(sline) == StartsWith(sline, InputOpen) /\ EndsWith(sline, CloseBrace)

\* read_file with a missing file read as an empty one
read_file_lenient(fname, filesys) ==
    IF fname \notin DOMAIN filesys THEN Ok(<<>>) ELSE Ok(filesys[fname])

\* process, lines 150-151: open(fname, 'r') and read; open raises IOError
\* when the file does not exist
read_file(fname, filesys) ==
    IF fname \notin DOMAIN filesys THEN Raise("IOError") ELSE Ok(filesys[fname])

RECURSIVE process(_, _, _)
RECURSIVE process_lines(_, _, _)

\* process, lines 146-158.  depth counts the nested calls: the interpreter
\* raises RuntimeError (maximum recursion depth exceeded) past its limit.
process(line, filesys, depth) ==
    IF depth > RecursionLimit THEN Raise("RuntimeError")
    ELSE
    LET sline == Strip(line) IN
    IF is_include(sline)
    THEN LET f == read_file(include_fname(sline), filesys) IN
         IF f.err # "none" THEN f
         ELSE LET r == process_lines(Split(f.s), filesys, depth + 1) IN
              IF r.err # "none" THEN r
              ELSE Ok(NL \o r.s \o NL)
    ELSE IF StartsWith(sline, LiteralMarker)
         THEN Ok(process_literal(sline))
         ELSE Ok(process_plain(line))

\* '\n'.join(process(line) for line in lines), lines 152 and 179: the
\* generator is consumed left to right and stops at the first exception
process_lines(lines, filesys, depth) ==
    IF lines = <<>> THEN Ok(<<>>)
    ELSE LET first == process(lines[1], filesys, depth) IN
         IF first.err # "none" THEN first
         ELSE IF Len(lines) = 1 THEN first
         ELSE LET rest == process_lines(Tail(lines), filesys, depth) IN
              IF rest.err # "none" THEN rest
              ELSE Ok(first.s \o NL \o rest.s)

\* the filter of line 179: a top-level line is kept unless it starts with '-#-'
keep_line(line) == ~StartsWith(line, CommentMarker)

\* latex, lines 178-179: the text handed to pandoc
pre_convert(t, filesys) ==
    process_lines(SelectSeq(Split(t), keep_line), filesys, 1)

\* out_process, lines 159-177
out_process(line) ==
    LET sline == Strip(line) IN
    IF StartsWith(sline, DecodeMe)
    THEN HexDecode(Replace(sline, DecodeMe, <<>>))
    ELSE IF StartsWith(sline, BeginEnumerate)
         THEN Ok(Join(<<line>> \o EnumerateSettings) \o NL)
         ELSE Ok(line)

\* '\n'.join(out_process(line) for line in out.split('\n')), line 187
RECURSIVE out_process_lines(_)
out_process_lines(lines) ==
    IF lines = <<>> THEN Ok(<<>>)
    ELSE LET first == out_process(lines[1]) IN
         IF first.err # "none" THEN first
         ELSE IF Len(lines) = 1 THEN first
         ELSE LET rest == out_process_lines(Tail(lines)) IN
              IF rest.err # "none" THEN rest
              ELSE Ok(first.s \o NL \o rest.s)

post_convert(out) == out_process_lines(Split(out))

-----------------------------------------------------------------------------
(* Values *)

\* Python's None for bib; otherwise the bibliography file's bytes
None == [some |-> FALSE, s |-> <<>>]
Some(s) == [some |-> TRUE, s |-> s]

\* main, lines 224-230: the option defaults that reach the header and footer
DefaultHeader ==
    [doc_class |-> "documentclass[12pt]{article}", margin |-> "1.0in",
     multicols |-> FALSE, beamer |-> FALSE]
DefaultFooter == [multicols |-> FALSE, append |-> ""]

\* main, lines 275-280: latex_text, kept as the parts it is concatenated from
assemble(b, bibv, nbi) ==
    [header |-> DefaultHeader, body |-> b,
     bib_include |-> ~(bibv = None \/ nbi), footer |-> DefaultFooter]

\* latex_text before line 276 has run
Unassembled ==
    [header |-> DefaultHeader, body |-> <<>>, bib_include |-> FALSE,
     footer |-> DefaultFooter]

\* a file that does not exist / a file holding content
NoFile == [exists |-> FALSE, content |-> Unassembled]
FileWith(c) == [exists |-> TRUE, content |-> c]

\* main, lines 287-297: the names main() knows under tmpdir
texfile == "page.tex"
pdffile == "page.pdf"
auxfile == "page.aux"
logfile == "page.log"
bblfile == "page.bbl"
blgfile == "page.blg"
navfile == "page.nav"
snmfile == "page.snm"
tocfile == "page.toc"
bibfile == "bibliography.bib"
outfile == "page.out"

\* what a pdflatex run may leave beside page.tex, and what bibtex may
CompilerSideFiles == {pdffile, auxfile, logfile, outfile, navfile, snmfile, tocfile}
BibtexSideFiles == {bblfile, blgfile}

Range(seq) == {seq[i] : i \in 1..Len(seq)}

-----------------------------------------------------------------------------
(* The external tools' checks *)

\* pandoc's status never looked at
pandoc_raises_never(rc) == FALSE

\* latex, lines 184-185
pandoc_raises(rc) == rc # 0

\* pdflatex, lines 195-196: a nonzero status or "? No pages of output."
pdflatex_raises(res) == res.rc # 0 \/ res.nopages

\* bibtex, lines 204-205
bibtex_raises(rc) == rc # 0

\* what a pdflatex process can answer
PdflatexResults == [rc : {0, 1}, nopages : BOOLEAN]

-----------------------------------------------------------------------------
(* main(): latex(text), lines 274-280 *)

\* latex, lines 178-179, called from line 276/279 outside any try: an
\* exception of process leaves main()
LatexPreprocess ==
    /\ pc = "start"
    /\ LET r == pre_convert(text, fs) IN
       IF r.err # "none"
       THEN /\ exc' = r.err
            /\ pc' = "crashed"
            /\ UNCHANGED pandoc_in
       ELSE /\ pandoc_in' = r.s
            /\ pc' = "pandoc"
            /\ UNCHANGED exc
    /\ UNCHANGED <<text, fs, bib, no_bib_include, includedirs, includefiles,
                   returncode, body, latex_text, tmpdir,
                   files, cwd, recovery, calls, caught,
                   stdout, idx, textvars>>

\* latex, lines 180-187: pandoc runs on the text; its output, which leaves
\* what it does not recognise unchanged, goes line by line through out_process
LatexPandoc ==
    /\ pc = "pandoc"
    /\ calls' = Append(calls, "pandoc")
    /\ \E rc \in {0, 1} :
         /\ returncode' = rc
         /\ IF pandoc_raises(rc)
            THEN /\ exc' = "RuntimeError"
                 /\ pc' = "crashed"
                 /\ UNCHANGED body
            ELSE LET r == post_convert(pandoc_in) IN
                 IF r.err # "none"
                 THEN /\ exc' = r.err
                      /\ pc' = "crashed"
                      /\ UNCHANGED body
                 ELSE /\ body' = r.s
                      /\ pc' = "assemble"
                      /\ UNCHANGED exc
    /\ UNCHANGED <<text, fs, bib, no_bib_include, includedirs, includefiles,
                   pandoc_in, latex_text, tmpdir, files, cwd,
                   recovery, caught, stdout, idx, textvars>>

\* main, lines 275-280
Assemble ==
    /\ pc = "assemble"
    /\ latex_text' = assemble(body, bib, no_bib_include)
    /\ pc' = "mkdtemp"
    /\ UNCHANGED <<text, fs, bib, no_bib_include, includedirs, includefiles,
                   pandoc_in, returncode, body, tmpdir, files,
                   cwd, recovery, calls, exc, caught, stdout,
                   idx, textvars>>

-----------------------------------------------------------------------------
(* main(): the workspace and the staging, lines 284-302 *)

\* main, lines 284-286
Mkdtemp ==
    /\ pc = "mkdtemp"
    /\ tmpdir' = TRUE
    /\ cwd' = "tmpdir"
    /\ idx' = 1
    /\ pc' = "stagedirs"
    /\ UNCHANGED <<text, fs, bib, no_bib_include, includedirs, includefiles,
                   pandoc_in, returncode, body, latex_text,
                   files, recovery, calls, exc, caught,
                   stdout, textvars>>

\* one subprocess.check_call(['cp', ...]) of lines 299-302, outside the try:
\* a nonzero status raises CalledProcessError, which leaves main(); cp may
\* have copied part of the source by then
StageOne(here, paths) ==
    /\ pc = here
    /\ idx <= Len(paths)
    /\ calls' = Append(calls, "cp")
    /\ \E rc \in {0, 1} :
         IF rc # 0
         THEN /\ exc' = "CalledProcessError"
              /\ pc' = "crashed"
              /\ \E partial \in BOOLEAN :
                   files' = IF partial THEN files \cup {paths[idx]} ELSE files
              /\ UNCHANGED idx
         ELSE /\ files' = files \cup {paths[idx]}
              /\ idx' = idx + 1
              /\ UNCHANGED <<pc, exc>>
    /\ UNCHANGED <<text, fs, bib, no_bib_include, includedirs, includefiles,
                   pandoc_in, returncode, body, latex_text,
                   tmpdir, cwd, recovery, caught, stdout,
                   textvars>>

\* the end of a staging loop
StageEnd(here, paths, next) ==
    /\ pc = here
    /\ idx > Len(paths)
    /\ idx' = 1
    /\ pc' = next
    /\ UNCHANGED <<text, fs, bib, no_bib_include, includedirs, includefiles,
                   pandoc_in, returncode, body, latex_text,
                   tmpdir, files, cwd, recovery, calls, exc,
                   caught, stdout, textvars>>

StageDir == StageOne("stagedirs", includedirs)
StageDirsEnd == StageEnd("stagedirs", includedirs, "stagefiles")
StageFile == StageOne("stagefiles", includefiles)
StageFilesEnd == StageEnd("stagefiles", includefiles, "write")

-----------------------------------------------------------------------------
(* main(): the try block, lines 304-318 *)

\* main, lines 305-309
WriteSources ==
    /\ pc = "write"
    /\ files' = files \cup {texfile} \cup (IF bib # None THEN {bibfile} ELSE {})
    /\ pc' = "pdflatex1"
    /\ UNCHANGED <<text, fs, bib, no_bib_include, includedirs, includefiles,
                   pandoc_in, returncode, body, latex_text,
                   tmpdir, cwd, recovery, calls, exc, caught,
                   stdout, idx, textvars>>

\* after_first_pass testing the truth value of bib, as line 346 does
after_first_pass_truthy(bibv) ==
    IF bibv.some /\ bibv.s # <<>> THEN "bibtex" ELSE "harvest"

\* main, lines 311-315: what follows the first pdflatex pass
after_first_pass(bibv) == IF bibv # None THEN "bibtex" ELSE "harvest"

\* the side files a pdflatex pass may write: the first pass any of them, a
\* later pass those of the first again
pass_writes(here) ==
    IF here = "pdflatex1" THEN SUBSET CompilerSideFiles ELSE {{}}

\* pdflatex(texfile), lines 189-196, called at `here`; a raise is caught by
\* the bare except of line 319
PdflatexPass(here, next) ==
    /\ pc = here
    /\ calls' = Append(calls, "pdflatex")
    /\ \E written \in pass_writes(here) : files' = files \cup written
    /\ \E res \in PdflatexResults :
         IF pdflatex_raises(res)
         THEN /\ caught' = "RuntimeError"
              /\ pc' = "except"
         ELSE /\ pc' = next
              /\ UNCHANGED caught
    /\ UNCHANGED <<text, fs, bib, no_bib_include, includedirs, includefiles,
                   pandoc_in, returncode, body, latex_text,
                   tmpdir, cwd, recovery, exc, stdout, idx,
                   textvars>>

\* bibtex('page'), lines 198-205, called at line 312
Bibtex ==
    /\ pc = "bibtex"
    /\ calls' = Append(calls, "bibtex")
    /\ \E written \in SUBSET BibtexSideFiles : files' = files \cup written
    /\ \E rc \in {0, 1} :
         IF bibtex_raises(rc)
         THEN /\ caught' = "RuntimeError"
              /\ pc' = "except"
         ELSE /\ pc' = "pdflatex2"
              /\ UNCHANGED caught
    /\ UNCHANGED <<text, fs, bib, no_bib_include, includedirs, includefiles,
                   pandoc_in, returncode, body, latex_text,
                   tmpdir, cwd, recovery, exc, stdout, idx,
                   textvars>>

\* main, lines 317-318: open(pdffile) raises IOError when pdflatex left no
\* page.pdf; the read or the print may fail as well
Harvest ==
    /\ pc = "harvest"
    /\ \E fails \in BOOLEAN :
         IF pdffile \notin files \/ fails
         THEN /\ caught' = "IOError"
              /\ pc' = "except"
              /\ UNCHANGED stdout
         ELSE /\ stdout' = FileWith(latex_text)
              /\ pc' = "finally"
              /\ UNCHANGED caught
    /\ UNCHANGED <<text, fs, bib, no_bib_include, includedirs, includefiles,
                   pandoc_in, returncode, body, latex_text,
                   tmpdir, files, cwd, recovery, calls, exc,
                   idx, textvars>>

-----------------------------------------------------------------------------
(* main(): the except block, lines 319-323 *)

\* open(name, 'w') with a relative name writes under the working directory
write_relative(dir, content) ==
    /\ recovery' = IF dir = "mydir" THEN FileWith(content) ELSE recovery
    /\ files' = IF dir = "tmpdir" THEN files \cup {texfile} ELSE files

\* the except block without its chdir(mydir): page.tex is written where
\* the process stands
ExceptHandler_InPlace ==
    /\ pc = "except"
    /\ write_relative(cwd, latex_text)
    /\ cwd' = "tmpdir"
    /\ pc' = "finally"
    /\ UNCHANGED <<text, fs, bib, no_bib_include, includedirs, includefiles,
                   pandoc_in, returncode, body, latex_text, tmpdir, calls,
                   exc, caught, stdout, idx, textvars>>

\* lines 320-323: chdir(mydir), write page.tex there, chdir(tmpdir)
ExceptHandler ==
    /\ pc = "except"
    /\ write_relative("mydir", latex_text)
    /\ cwd' = "tmpdir"
    /\ pc' = "finally"
    /\ UNCHANGED <<text, fs, bib, no_bib_include, includedirs, includefiles,
                   pandoc_in, returncode, body, latex_text,
                   tmpdir, calls, exc, caught, stdout, idx,
                   textvars>>

-----------------------------------------------------------------------------
(* main(): the finally block, lines 324-352 *)

\* lines 325-330: rm -rf of every staged basename (rm -rf exits 0 on the
\* paths under the directory main() made)
remove_staged(fset) == fset \ (Range(includedirs) \cup Range(includefiles))

\* lines 331-340: five unlinks, each in its own try
unlink_each(fset) == fset \ {pdffile, texfile, auxfile, logfile, outfile}

\* lines 341-345: three unlinks in ONE try; the first that raises ends it
unlink_nav_group(fset) ==
    IF navfile \notin fset THEN fset
    ELSE IF snmfile \notin fset THEN fset \ {navfile}
    ELSE fset \ {navfile, snmfile, tocfile}

\* line 346: the truth value of bib (None and '' are both false)
bib_truthy(bibv) == bibv.some /\ bibv.s # <<>>

\* lines 346-351: under `if bib`, os.unlink(bibfile) unguarded, then bbl and
\* blg each in its own try
unlink_bib(fset) ==
    IF ~bib_truthy(bib) THEN [err |-> "none", fset |-> fset]
    ELSE IF bibfile \notin fset THEN [err |-> "OSError", fset |-> fset]
    ELSE [err |-> "none", fset |-> fset \ {bibfile, bblfile, blgfile}]

\* the list of "rm" processes lines 325-330 spawn
RECURSIVE rm_calls(_)
rm_calls(n) == IF n = 0 THEN <<>> ELSE Append(rm_calls(n - 1), "rm")

\* lines 324-352.  os.rmdir raises OSError on a directory that is not empty;
\* an exception raised inside finally leaves main().
Finally ==
    /\ pc = "finally"
    /\ calls' = calls \o rm_calls(Len(includedirs) + Len(includefiles))
    /\ LET r == unlink_bib(unlink_nav_group(unlink_each(remove_staged(files)))) IN
       /\ files' = r.fset
       /\ IF r.err # "none"
          THEN /\ exc' = r.err
               /\ pc' = "crashed"
               /\ UNCHANGED tmpdir
          ELSE IF r.fset # {}
          THEN /\ exc' = "OSError"
               /\ pc' = "crashed"
               /\ UNCHANGED tmpdir
          ELSE /\ tmpdir' = FALSE
               /\ pc' = "done"
               /\ UNCHANGED exc
    /\ UNCHANGED <<text, fs, bib, no_bib_include, includedirs, includefiles,
                   pandoc_in, returncode, body, latex_text,
                   cwd, recovery, caught, stdout, idx,
                   textvars>>

-----------------------------------------------------------------------------
(* The build: inputs and specification *)

\* the .tex files beside the document, by file name
NoFiles == <<>>
\* a.tex = '\input{b}', b.tex = '-#-a\n--|a'
FsNested ==
    (<<97, 46, 116, 101, 120>> :> <<92, 105, 110, 112, 117, 116, 123, 98, 125>>)
    @@ (<<98, 46, 116, 101, 120>> :> <<45, 35, 45, 97, 10, 45, 45, 124, 97>>)
\* a.tex = '\input{b}', b.tex = '\input{c}', and no c.tex
FsMissing ==
    (<<97, 46, 116, 101, 120>> :> <<92, 105, 110, 112, 117, 116, 123, 98, 125>>)
    @@ (<<98, 46, 116, 101, 120>> :> <<92, 105, 110, 112, 117, 116, 123, 99, 125>>)
\* a.tex = '\input{a}'
FsSelf ==
    (<<97, 46, 116, 101, 120>> :> <<92, 105, 110, 112, 117, 116, 123, 97, 125>>)
\* a.tex = '\input{b}', b.tex = 'a\n\input{a}'
FsCycle ==
    (<<97, 46, 116, 101, 120>> :> <<92, 105, 110, 112, 117, 116, 123, 98, 125>>)
    @@ (<<98, 46, 116, 101, 120>> :>
          <<97, 10, 92, 105, 110, 112, 117, 116, 123, 97, 125>>)

TextPlain == <<45, 35, 45, 97, 10, 96, 96, 97, 39, 39, 10, 45, 45, 124, 97>>
                                                  \* '-#-a\n``a\'\'\n--|a'
TextInputA == <<92, 105, 110, 112, 117, 116, 123, 97, 125>>   \* '\input{a}'
TextInputC == <<97, 10, 92, 105, 110, 112, 117, 116, 123, 99, 125>>
                                                  \* 'a\n\input{c}'

\* the documents main() is run on
Documents ==
    { [text |-> TextPlain, fs |-> NoFiles],
      [text |-> TextInputA, fs |-> FsNested],
      [text |-> TextInputC, fs |-> NoFiles],
      [text |-> TextInputA, fs |-> FsMissing],
      [text |-> TextInputA, fs |-> FsSelf],
      [text |-> TextInputA, fs |-> FsCycle] }

\* -b: absent, an empty file, a file with an entry ('@')
Bibliographies == {None, Some(<<>>), Some(<<64>>)}

TextIdle ==
    /\ tpc = "off"
    /\ r1 = Ok(<<>>)
    /\ r2 = Ok(<<>>)

\* main() after option parsing and the read of the input, lines 208-274
MainStart ==
    /\ pc = "start"
    /\ pandoc_in = <<>>
    /\ returncode = -1
    /\ body = <<>>
    /\ latex_text = Unassembled
    /\ tmpdir = FALSE
    /\ files = {}
    /\ cwd = "mydir"
    /\ recovery = NoFile
    /\ calls = <<>>
    /\ exc = "none"
    /\ caught = "none"
    /\ stdout = NoFile
    /\ idx = 1

Init ==
    /\ \E d \in Documents : text = d.text /\ fs = d.fs
    /\ bib \in Bibliographies
    /\ no_bib_include \in BOOLEAN
    /\ includedirs \in {<<>>, <<"figs">>}
    /\ includefiles \in {<<>>, <<"style.sty">>}
    /\ MainStart
    /\ TextIdle

Next ==
    \/ LatexPreprocess
    \/ LatexPandoc
    \/ Assemble
    \/ Mkdtemp
    \/ StageDir
    \/ StageDirsEnd
    \/ StageFile
    \/ StageFilesEnd
    \/ WriteSources
    \/ PdflatexPass("pdflatex1", after_first_pass(bib))
    \/ Bibtex
    \/ PdflatexPass("pdflatex2", "pdflatex3")
    \/ PdflatexPass("pdflatex3", "pdflatex4")
    \/ PdflatexPass("pdflatex4", "harvest")
    \/ Harvest
    \/ ExceptHandler
    \/ Finally

Spec == Init /\ [][Next]_vars

-----------------------------------------------------------------------------
(* The text functions on their own: inputs and specification *)

\* the pieces an input is made of:
\* 'a', ' ', '\n', '`', "'", '-', '|', '``', "''", '--|', '-#-',
\* '.decodeme.', '\input{a}'
Tokens ==
    { <<97>>, <<32>>, <<10>>, <<96>>, <<39>>, <<45>>, <<124>>,
      Backticks, Quotes, LiteralMarker, CommentMarker, DecodeMe,
      <<92, 105, 110, 112, 117, 116, 123, 97, 125>> }

RECURSIVE TokenTexts(_)
TokenTexts(n) ==
    IF n = 0 THEN {<<>>}
    ELSE LET shorter == TokenTexts(n - 1) IN
         shorter \cup {s \o t : s \in shorter, t \in Tokens}

\* a.tex = '-#-a\n--|a'
FsComment ==
    (<<97, 46, 116, 101, 120>> :> <<45, 35, 45, 97, 10, 45, 45, 124, 97>>)

MainIdle ==
    /\ bib = None
    /\ no_bib_include = FALSE
    /\ includedirs = <<>>
    /\ includefiles = <<>>
    /\ MainStart

InitText ==
    /\ text \in TokenTexts(MaxTokens)
    /\ fs \in {NoFiles, FsComment, FsSelf}
    /\ tpc = "input"
    /\ r1 = Ok(<<>>)
    /\ r2 = Ok(<<>>)
    /\ MainIdle

\* process on the line '--|' + text, for a text that is one line
Encode ==
    /\ tpc = "input"
    /\ FindNL(text, 1) = 0
    /\ r1' = process(LiteralMarker \o text, fs, 1)
    /\ tpc' = "encoded"
    /\ UNCHANGED <<pc, text, fs, bib, no_bib_include, includedirs, includefiles,
                   pandoc_in, returncode, body, latex_text,
                   tmpdir, files, cwd, recovery, calls, exc,
                   caught, stdout, idx, r2>>

\* out_process on the marker line of what process returned ('\n' + the
\* marker line + '\n')
Decode ==
    /\ tpc = "encoded"
    /\ r1.err = "none"
    /\ r2' = out_process(Split(r1.s)[2])
    /\ tpc' = "decoded"
    /\ UNCHANGED <<pc, text, fs, bib, no_bib_include, includedirs, includefiles,
                   pandoc_in, returncode, body, latex_text,
                   tmpdir, files, cwd, recovery, calls, exc,
                   caught, stdout, idx, r1>>

\* latex, lines 178-179, on the text
PreConvertOnce ==
    /\ tpc = "input"
    /\ r1' = pre_convert(text, fs)
    /\ tpc' = "once"
    /\ UNCHANGED <<pc, text, fs, bib, no_bib_include, includedirs, includefiles,
                   pandoc_in, returncode, body, latex_text,
                   tmpdir, files, cwd, recovery, calls, exc,
                   caught, stdout, idx, r2>>

\* latex, lines 178-179, on its own output
PreConvertTwice ==
    /\ tpc = "once"
    /\ r1.err = "none"
    /\ r2' = pre_convert(r1.s, fs)
    /\ tpc' = "twice"
    /\ UNCHANGED <<pc, text, fs, bib, no_bib_include, includedirs, includefiles,
                   pandoc_in, returncode, body, latex_text,
                   tmpdir, files, cwd, recovery, calls, exc,
                   caught, stdout, idx, r1>>

NextText ==
    \/ Encode
    \/ Decode
    \/ PreConvertOnce
    \/ PreConvertTwice

SpecText == InitText /\ [][NextText]_vars

-----------------------------------------------------------------------------
(* Properties of the build *)

\* main() has returned or has been left by an exception
Exited == pc \in {"done", "crashed"}

\* the first pdflatex pass has been started
ReachedCompile == \E i \in 1..Len(calls) : calls[i] = "pdflatex"

IsPass(c) == c \in {"pdflatex", "bibtex"}

\* the compiler and bibliography-processor invocations so far, in order
Passes == SelectSeq(calls, IsPass)

\* the file names the \input lines of a text name
IncludedNames(t) ==
    {include_fname(Strip(Split(t)[i])) :
        i \in {k \in 1..Len(Split(t)) : is_include(Strip(Split(t)[k]))}}

\* the file names reachable from a set of names in n rounds of inclusion
RECURSIVE IncludeClosure(_, _, _)
IncludeClosure(names, filesys, n) ==
    IF n = 0 THEN names
    ELSE IncludeClosure(
             names \cup UNION {IncludedNames(filesys[f]) :
                                  f \in names \cap DOMAIN filesys},
             filesys, n - 1)

ReachableNames(t, filesys) ==
    IncludeClosure(IncludedNames(t), filesys, Cardinality(DOMAIN filesys) + 1)

\* some inclusion directive, at some depth, names a file that does not exist
MissingInclude(t, filesys) ==
    \E f \in ReachableNames(t, filesys) : f \notin DOMAIN filesys

\* some included file includes itself, directly or through other files
CyclicInclude(t, filesys) ==
    \E f \in ReachableNames(t, filesys) \cap DOMAIN filesys :
        f \in ReachableNames(filesys[f], filesys)

\* C1: once a build that reached the compile stage has ended, the workspace
\* directory and every file under it are gone, whatever the bibliography
\* (absent, empty, non-empty) and whatever side files the tools wrote.
C1_WorkspaceRemoved ==
    (Exited /\ ReachedCompile) => (~tmpdir /\ files = {})

\* C2: when a compiler pass, the bibliography pass or the harvest read has
\* failed, page.tex in the caller's directory holds latex_text before the
\* cleanup starts (the workspace is still whole), it still does when main()
\* ends, and the cleanup has then run; with no such failure, page.tex is
\* never written there.
C2_RecoveryBeforeCleanup ==
    /\ (pc = "finally" /\ caught # "none") =>
          /\ recovery = FileWith(latex_text)
          /\ latex_text = assemble(body, bib, no_bib_include)
          /\ tmpdir
          /\ texfile \in files
          /\ \A i \in 1..Len(calls) : calls[i] # "rm"
    /\ (Exited /\ caught # "none") =>
          /\ recovery = FileWith(latex_text)
          /\ texfile \notin files
    /\ caught = "none" => recovery = NoFile

C2_Witness ==
    /\ pc = "finally"
    /\ caught = "RuntimeError"
    /\ Passes = <<"pdflatex", "bibtex">>
    /\ recovery = FileWith(latex_text)
    /\ pdffile \in files

\* C3: once the passes are over and no tool has failed: with a bibliography
\* the tools ran as pdflatex, bibtex, pdflatex, pdflatex and then only
\* pdflatex, bibtex once and pdflatex at least three times; without one,
\* pdflatex ran once and bibtex never.  The artifact is printed only after
\* the passes.
C3_PassOrder ==
    /\ ((pc \in {"harvest", "except", "finally"} \/ (Exited /\ ReachedCompile))
        /\ caught # "RuntimeError") =>
          IF bib # None
          THEN /\ Len(Passes) >= 4
               /\ SubSeq(Passes, 1, 4) = <<"pdflatex", "bibtex", "pdflatex", "pdflatex">>
               /\ \A i \in 5..Len(Passes) : Passes[i] = "pdflatex"
               /\ Cardinality({i \in 1..Len(Passes) : Passes[i] = "bibtex"}) = 1
               /\ Cardinality({i \in 1..Len(Passes) : Passes[i] = "pdflatex"}) >= 3
          ELSE Passes = <<"pdflatex">>
    /\ stdout.exists => pc \in {"finally", "done", "crashed"}

C3_Witness ==
    /\ pc = "done"
    /\ bib = Some(<<64>>)
    /\ stdout.exists
    /\ Len(Passes) = 5

\* C4 as stated: after pandoc has exited with a nonzero status and the
\* build has ended, the recovery file exists in the caller's directory.
C4_PandocFailureRecovers ==
    (Exited /\ returncode > 0) => recovery.exists

\* C4 as amended: a nonzero pandoc status ends main() at once with an
\* uncaught RuntimeError: no recovery file, no workspace, no assembled
\* document, and no process other than pandoc was ever spawned.
C4_PandocFailureAborts ==
    returncode > 0 =>
        /\ pc = "crashed"
        /\ exc = "RuntimeError"
        /\ recovery = NoFile
        /\ ~tmpdir
        /\ files = {}
        /\ latex_text = Unassembled
        /\ calls = <<"pandoc">>

C4_Witness ==
    /\ pc = "crashed"
    /\ returncode = 1
    /\ pandoc_in # <<>>

\* C5: when an inclusion directive, at any depth, names a file that does
\* not exist, no external process is ever spawned and no workspace is ever
\* created: main() is at its start or has been left by the exception.
C5_MissingIncludeAbortsEarly ==
    MissingInclude(text, fs) =>
        /\ pc \in {"start", "crashed"}
        /\ calls = <<>>
        /\ ~tmpdir
        /\ files = {}
        /\ returncode = -1

C5_Witness ==
    /\ pc = "crashed"
    /\ exc = "IOError"
    /\ fs = FsMissing
    /\ text = TextInputA

\* C6: when a staging copy has failed, the workspace and what was copied
\* into it are gone by the time main() ends.
C6_StagingFailureTornDown ==
    (Exited /\ exc = "CalledProcessError") => (~tmpdir /\ files = {})

\* C8: a document that includes itself, directly or through other files,
\* makes the Includer fail with a cyclic-include error.
C8_CycleDetected ==
    (CyclicInclude(text, fs) /\ pc # "start") =>
        (pc = "crashed" /\ exc = "CyclicIncludeError")

\* C10: no line of the text handed to pandoc begins with '-#-'.
C10_NoCommentLineConverted ==
    \A i \in 1..Len(Split(pandoc_in)) :
        ~StartsWith(Split(pandoc_in)[i], CommentMarker)

-----------------------------------------------------------------------------
(* Properties of the text functions *)

\* no line of the text is an inclusion directive
NoDirective(t) ==
    \A i \in 1..Len(Split(t)) : ~is_include(Strip(Split(t)[i]))

\* C7: encoding the line '--|' + p with process and decoding the marker
\* line with out_process gives p back.
C7_RoundTrip ==
    tpc = "decoded" => (r2.err = "none" /\ r2.s = text)

\* C9: on a text with no inclusion directive, the pre-conversion transform
\* applied to its own output gives that output again.
C9_Idempotent ==
    (tpc = "twice" /\ NoDirective(text)) => r2 = r1

C9_Witness ==
    /\ tpc = "twice"
    /\ NoDirective(text)
    /\ text = CommentMarker \o NL \o LiteralMarker
    /\ r1.s = NL \o DecodeMe \o NL
    /\ r2 = r1

====
